---- MODULE Spec2Model ----
(***************************************************************************)
(* PyMemoize: model of memoize/core.py (Memoizer and MemoizedFunction).    *)
(*                                                                         *)
(* Python values are tagged tuples so that values of different Python      *)
(* types can be compared: None, ints, strings and callables.  Cache keys   *)
(* are real strings, built the way core.py formats them.                   *)
(***************************************************************************)
EXTENDS Integers, Sequences, FiniteSets, TLC

VARIABLES
    regions,    \* Memoizer.regions: region name -> option dict
    store,      \* the backing stores: store name -> (final key -> entry)
    now,        \* the value time.time() returns
    ext,        \* the external state an etagger and the functions read
    fn,         \* the MemoizedFunction under use
    last,       \* the last operation: its inputs, result and events
    threads     \* the threads inside Memoizer.get: position and local variables

vars == <<regions, store, now, ext, fn, last, threads>>

----------------------------------------------------------------------------
(* Bounds of the model *)

MaxTime == 2        \* the clock stops advancing here
MaxExt == 1         \* the external state ranges over 0..MaxExt
MaxArgs == 2        \* positional arguments of a call
MaxKw == 2          \* keyword arguments of a call
MaxThreads == 2     \* threads that call get concurrently

----------------------------------------------------------------------------
(* Python values *)

None == <<"none">>
IntV(i) == <<"int", i>>
StrV(s) == <<"str", s>>
FnV(n) == <<"fn", n>>

\* Python truthiness of the values that occur as options
Truthy(v) == v # None /\ v # IntV(0) /\ v # StrV("")

\* d.get(k) on an option dict
OptGet(d, k) == IF k \in DOMAIN d THEN d[k] ELSE None

\* d.get(k, dflt)
OptGetD(d, k, dflt) == IF k \in DOMAIN d THEN d[k] ELSE dflt

\* mutant: opts.update(src), a later source overwrites what is set
SetDefaultsOverwrite(opts, src) ==
    [k \in DOMAIN opts \cup DOMAIN src |->
        IF k \in DOMAIN src THEN src[k] ELSE opts[k]]

\* for k, v in src.items(): opts.setdefault(k, v)
SetDefaults(opts, src) ==
    [k \in DOMAIN opts \cup DOMAIN src |->
        IF k \in DOMAIN opts THEN opts[k] ELSE src[k]]

EmptyDict == [k \in {} |-> None]

DEFAULT_TIMEOUT == 10
CURRENT_PROTOCOL_VERSION == "1"
PROTOCOL_INDEX == 1
CREATION_INDEX == 2
EXPIRY_INDEX == 3
ETAG_INDEX == 4
VALUE_INDEX == 5

----------------------------------------------------------------------------
(* Strings *)

\* repr of an int argument
Repr(v) == ToString(v)

\* repr of a str (a master key component)
ReprStr(s) == "'" \o s \o "'"

RECURSIVE Join(_, _)
\* sep.join(chunks)
Join(chunks, sep) ==
    IF chunks = <<>> THEN ""
    ELSE IF Len(chunks) = 1 THEN chunks[1]
    ELSE chunks[1] \o sep \o Join(Tail(chunks), sep)

\* seq[i:] with Python's handling of negative and too large indices
SliceFrom(seq, i) ==
    LET n == Len(seq)
        start == IF i < 0 THEN (IF n + i < 0 THEN 0 ELSE n + i)
                 ELSE (IF i > n THEN n ELSE i)
    IN SubSeq(seq, start + 1, n)

----------------------------------------------------------------------------
(* Keyword arguments: a dict in insertion order, a sequence of <<name, value>> *)

KwNames(kwargs) == {kwargs[i][1] : i \in DOMAIN kwargs}
KwGet(kwargs, name) == kwargs[CHOOSE i \in DOMAIN kwargs : kwargs[i][1] = name][2]
KwPop(kwargs, name) == SelectSeq(kwargs, LAMBDA p : p[1] # name)

\* kwargs.update(new_kwargs): a present name keeps its place, a new one is appended
KwUpdate(kwargs, new_kwargs) ==
    [i \in DOMAIN kwargs |->
        IF kwargs[i][1] \in KwNames(new_kwargs)
        THEN <<kwargs[i][1], KwGet(new_kwargs, kwargs[i][1])>>
        ELSE kwargs[i]]
    \o SelectSeq(new_kwargs, LAMBDA p : p[1] \notin KwNames(kwargs))

----------------------------------------------------------------------------
(* The decorated functions of tests/test_func.py, as getargspec sees them *)

ModuleName == "tests.test_func"

\* def f(a, b=2, *args, **kwargs)
FuncF == [name |-> "f", spec_args |-> <<"a", "b">>, spec_defaults |-> <<2>>,
          varargs |-> TRUE, varkw |-> TRUE, reads_state |-> FALSE]
\* def g(a=1, b=2)
FuncG == [name |-> "g", spec_args |-> <<"a", "b">>, spec_defaults |-> <<1, 2>>,
          varargs |-> FALSE, varkw |-> FALSE, reads_state |-> FALSE]
\* def h()
FuncH == [name |-> "h", spec_args |-> <<>>, spec_defaults |-> <<>>,
          varargs |-> FALSE, varkw |-> FALSE, reads_state |-> FALSE]
\* def func_1(arg=1)
Func1 == [name |-> "func_1", spec_args |-> <<"arg">>, spec_defaults |-> <<1>>,
          varargs |-> FALSE, varkw |-> FALSE, reads_state |-> FALSE]
\* def g(*args), the g of test_namespace
FuncGArgs == [name |-> "g", spec_args |-> <<>>, spec_defaults |-> <<>>,
              varargs |-> TRUE, varkw |-> FALSE, reads_state |-> FALSE]
\* def state_sum(), which returns sum(state, 0)
FuncStateSum == [name |-> "state_sum", spec_args |-> <<>>, spec_defaults |-> <<>>,
                 varargs |-> FALSE, varkw |-> FALSE, reads_state |-> TRUE]
\* def append(self, *args, **kwargs)
FuncAppend == [name |-> "append", spec_args |-> <<"self">>, spec_defaults |-> <<>>,
               varargs |-> TRUE, varkw |-> TRUE, reads_state |-> FALSE]

\* master_key = ','.join(map(repr, args)) if args else None
MasterKey(margs) ==
    IF margs # <<>>
    THEN StrV(Join([i \in DOMAIN margs |-> ReprStr(margs[i])], ","))
    ELSE None

\* MemoizedFunction.__init__
MemoizedFunction(func, master_key, opts, args, kwargs) ==
    [func |-> func, master_key |-> master_key, opts |-> opts,
     args |-> args, kwargs |-> kwargs]

\* Memoizer.__call__: memo(func, *margs, **opts)
Decorate(func, margs, opts) ==
    MemoizedFunction(func, MasterKey(margs), opts, <<>>, <<>>)

\* MemoizedFunction.bind
Bind(mf, args, kwargs) ==
    MemoizedFunction(mf.func, mf.master_key, mf.opts,
                     mf.args \o args, KwUpdate(mf.kwargs, kwargs))

\* MemoizedFunction._expand_args
ExpandArgs(mf, args, new_kwargs) ==
    [args |-> mf.args \o args, kwargs |-> KwUpdate(mf.kwargs, new_kwargs)]

----------------------------------------------------------------------------
(* How Python binds the arguments of a call of func to its parameters *)

IndexOf(seq, x) == CHOOSE i \in DOMAIN seq : seq[i] = x
InSeq(seq, x) == \E i \in DOMAIN seq : seq[i] = x

CallBind(func, args, kwargs) ==
    LET n == Len(func.spec_args)
        offset == n - Len(func.spec_defaults)
        p == IF Len(args) < n THEN Len(args) ELSE n
        star == SubSeq(args, n + 1, Len(args))
        extra == {name \in KwNames(kwargs) : ~InSeq(func.spec_args, name)}
        supplied(j) == j <= p \/ func.spec_args[j] \in KwNames(kwargs)
        ok == /\ star = <<>> \/ func.varargs
              /\ extra = {} \/ func.varkw
              /\ \A name \in KwNames(kwargs) :
                    InSeq(func.spec_args, name) => IndexOf(func.spec_args, name) > p
              /\ \A j \in 1..n : supplied(j) \/ j > offset
    IN [ok |-> ok,
        named |-> [j \in 1..n |->
                     IF j <= p THEN args[j]
                     ELSE IF func.spec_args[j] \in KwNames(kwargs)
                          THEN KwGet(kwargs, func.spec_args[j])
                     ELSE IF j > offset THEN func.spec_defaults[j - offset]
                     ELSE 0],
        star |-> star,
        kw |-> {<<name, KwGet(kwargs, name)>> : name \in extra}]

----------------------------------------------------------------------------
(* MemoizedFunction.key *)

RECURSIVE FillNamed(_, _, _, _)
\* the loop over spec_args: a named slot takes the keyword argument if there
\* is one (and pops it), else the next positional one, else the loop breaks
FillNamed(names, orig_args, kwargs, args) ==
    IF names = <<>>
    THEN [args |-> args, orig_args |-> orig_args, kwargs |-> kwargs]
    ELSE IF Head(names) \in KwNames(kwargs)
    THEN FillNamed(Tail(names), orig_args, KwPop(kwargs, Head(names)),
                   Append(args, KwGet(kwargs, Head(names))))
    ELSE IF orig_args # <<>>
    THEN FillNamed(Tail(names), Tail(orig_args), kwargs,
                   Append(args, Head(orig_args)))
    ELSE [args |-> args, orig_args |-> orig_args, kwargs |-> kwargs]

\* the positional list key renders: filled slots, the variadic tail, then
\* spec_defaults[len(args) - offset:]
KeyArgs(func, args, kwargs) ==
    LET filled == FillNamed(func.spec_args, args, kwargs, <<>>)
        a1 == filled.args \o filled.orig_args
        offset == Len(func.spec_args) - Len(func.spec_defaults)
    IN IF func.spec_defaults # <<>>
       THEN a1 \o SliceFrom(func.spec_defaults, Len(a1) - offset)
       ELSE a1

\* the kwargs dict as key leaves it: the names consumed by slots are popped
KeyKwargs(func, args, kwargs) ==
    FillNamed(func.spec_args, args, kwargs, <<>>).kwargs

Key(mf, args, kwargs) ==
    LET a == KeyArgs(mf.func, args, kwargs)
        kw == KeyKwargs(mf.func, args, kwargs)
        arg_str_chunks ==
            [i \in DOMAIN a |-> Repr(a[i])]
            \o [i \in DOMAIN kw |-> kw[i][1] \o "=" \o Repr(kw[i][2])]
        arg_str == Join(arg_str_chunks, ", ")
        key == ModuleName \o "." \o mf.func.name \o "(" \o arg_str \o ")"
    IN IF Truthy(mf.master_key) THEN mf.master_key[2] \o ":" \o key ELSE key

----------------------------------------------------------------------------
(* Memoizer._expand_opts *)

StoreV(n) == <<"store", n>>

\* the name a region value denotes; None and other non-strings name no region
RegionName(v) == IF v[1] = "str" THEN v[2] ELSE "<" \o v[1] \o ">"

\* '%s' % v
PyStr(v) == IF v[1] = "int" THEN ToString(v[2])
            ELSE IF v[1] = "none" THEN "None" ELSE v[2]

\* one more iteration than there are regions revisits a region, and the walk
\* is deterministic: it then never reaches 'default'
WalkFuel(rgs) == Cardinality(DOMAIN rgs)

RECURSIVE WalkRegions(_, _, _, _)
\* the while loop: apply the region's settings, stop after 'default', else go
\* on with the region's parent.  self.regions[region] raises KeyError for an
\* unknown region; exc = "hang" stands for the loop that never ends.
WalkRegions(rgs, region, opts, fuel) ==
    IF region \notin DOMAIN rgs THEN [exc |-> "KeyError", opts |-> opts]
    ELSE LET applied == SetDefaults(opts, rgs[region])
         IN IF region = "default" THEN [exc |-> "", opts |-> applied]
            ELSE IF fuel = 0 THEN [exc |-> "hang", opts |-> applied]
            ELSE WalkRegions(rgs,
                             RegionName(OptGetD(rgs[region], "parent", StrV("default"))),
                             applied, fuel - 1)

\* mutant: the key is prefixed whatever the namespace is
NamespacedKeyAlways(opts, key) ==
    PyStr(OptGet(opts, "namespace")) \o ":" \o key

\* namespace = opts.get('namespace'); if namespace: key = '%s:%s' % (namespace, key)
NamespacedKey(opts, key) ==
    IF Truthy(OptGet(opts, "namespace"))
    THEN PyStr(OptGet(opts, "namespace")) \o ":" \o key
    ELSE key

ExpandOpts(rgs, key, opts) ==
    LET w == WalkRegions(rgs, RegionName(OptGetD(opts, "region", StrV("default"))),
                         opts, WalkFuel(rgs))
    IN IF w.exc # ""
       THEN [exc |-> w.exc, opts |-> w.opts, key |-> key, sname |-> ""]
       ELSE [exc |-> "", opts |-> w.opts, key |-> NamespacedKey(w.opts, key),
             sname |-> w.opts["store"][2]]

----------------------------------------------------------------------------
(* The stores: "s0" is a plain dict, "s1" a store object with its own lock
   constructor and ttl query *)

StoreNames == {"s0", "s1"}

\* getattr(store, 'lock', None)
StoreLock(sname) == IF sname = "s1" THEN FnV("store.lock") ELSE None

\* hasattr(store, 'ttl')
StoreHasTtl(sname) == sname = "s1"

\* store.get(key)
StoreGet(st, sname, key) ==
    IF key \in DOMAIN st[sname] THEN st[sname][key] ELSE None

\* store[key] = data
StoreSet(st, sname, key, data) ==
    [st EXCEPT ![sname] =
        [k \in DOMAIN st[sname] \cup {key} |-> IF k = key THEN data ELSE st[sname][k]]]

\* del store[key], the KeyError of a missing key swallowed
StoreDel(st, sname, key) ==
    [st EXCEPT ![sname] = [k \in DOMAIN st[sname] \ {key} |-> st[sname][k]]]

EmptyStores == [s \in StoreNames |-> EmptyDict]

----------------------------------------------------------------------------
(* Memoizer._has_expired *)

\* the assertion on the protocol version
ProtocolOk(data) == data[PROTOCOL_INDEX] = CURRENT_PROTOCOL_VERSION

\* mutant: an entry without expiry counts as expired
HasExpiredNoGuard(data, opts, current_time) ==
    LET creation == data[CREATION_INDEX]
        old_expiry == data[EXPIRY_INDEX]
        old_etag == data[ETAG_INDEX]
        etag == OptGet(opts, "etag")
        expiry == OptGet(opts, "expiry")
        max_age == OptGet(opts, "max_age")
    IN \/ ~Truthy(old_expiry) \/ old_expiry[2] < current_time
       \/ etag # None /\ etag # old_etag
       \/ Truthy(expiry) /\ expiry[2] < current_time
       \/ max_age # None /\ creation + max_age[2] < current_time

\* TRUE where the code returns True, FALSE where it falls off the end (None)
HasExpired(data, opts, current_time) ==
    LET creation == data[CREATION_INDEX]
        old_expiry == data[EXPIRY_INDEX]
        old_etag == data[ETAG_INDEX]
        etag == OptGet(opts, "etag")
        expiry == OptGet(opts, "expiry")
        max_age == OptGet(opts, "max_age")
    IN \/ Truthy(old_expiry) /\ old_expiry[2] < current_time
       \/ etag # None /\ etag # old_etag
       \/ Truthy(expiry) /\ expiry[2] < current_time
       \/ max_age # None /\ creation + max_age[2] < current_time

----------------------------------------------------------------------------
(* Memoizer.get *)

FuncV(d) == <<"func", d>>
IsNone(v) == v[1] = "none"

\* str and lambda: 'value', the functions the tests hand to Memoizer.get
FuncStr == [name |-> "str", spec_args |-> <<>>, spec_defaults |-> <<>>,
            varargs |-> FALSE, varkw |-> FALSE, reads_state |-> FALSE]

\* the value func returns: it tells the function, the binding of its
\* parameters and, for a function that reads it, the external state
FuncValue(func, args, kwargs, e) ==
    LET b == CallBind(func, args, kwargs)
    IN <<"val", func.name, b.named, b.star, b.kw, IF func.reads_state THEN e ELSE 0>>

\* value = func(*args, **kwargs): a call Python cannot bind raises TypeError,
\* and the function itself may raise
CallFunc(func, args, kwargs, e, outcome) ==
    IF ~CallBind(func, args, kwargs).ok THEN [exc |-> "TypeError", value |-> None]
    ELSE IF outcome = "raise" THEN [exc |-> "ValueError", value |-> None]
    ELSE [exc |-> "", value |-> FuncValue(func, args, kwargs, e)]

\* the etagger of test_dynamic_etag returns len(state)
CallEtagger(etagger, args, kwargs, e) == IntV(e)

\* if opts.get('etag') is None and opts.get('etagger'): opts['etag'] = etagger(...)
DynamicEtag(opts, args, kwargs, e) ==
    IF OptGet(opts, "etag") = None /\ Truthy(OptGet(opts, "etagger"))
    THEN [k \in DOMAIN opts \cup {"etag"} |->
            IF k = "etag" THEN CallEtagger(opts["etagger"], args, kwargs, e)
            ELSE opts[k]]
    ELSE opts

\* mutant: the store's own lock is preferred to the lock option
LockFuncStoreFirst(opts, sname) ==
    IF Truthy(StoreLock(sname)) THEN StoreLock(sname) ELSE OptGet(opts, "lock")

\* lock_func = opts.get('lock') or getattr(store, 'lock', None)
LockFunc(opts, sname) ==
    IF Truthy(OptGet(opts, "lock")) THEN OptGet(opts, "lock") ELSE StoreLock(sname)

\* mutant: the lock is released before func is called
RecomputeReleaseFirst(key, sname, func, args, kwargs, opts, e, acquired, outcome) ==
    LET lock_func == LockFunc(opts, sname)
        haslock == Truthy(lock_func)
        locked == haslock /\ acquired
        timeout == OptGetD(opts, "timeout", IntV(DEFAULT_TIMEOUT))
        call == CallFunc(func, args, kwargs, e, outcome)
    IN [exc |-> call.exc, value |-> call.value,
        events |->
            (IF haslock
             THEN << <<"acquire", lock_func[2], key, timeout, acquired>> >>
             ELSE <<>>)
            \o (IF locked THEN << <<"release", lock_func[2], key>> >> ELSE <<>>)
            \o << <<"call", args, kwargs, call.exc>> >>]

\* mutant: the finally clause releases the lock whether or not it was acquired
RecomputeReleaseAlways(key, sname, func, args, kwargs, opts, e, acquired, outcome) ==
    LET lock_func == LockFunc(opts, sname)
        haslock == Truthy(lock_func)
        timeout == OptGetD(opts, "timeout", IntV(DEFAULT_TIMEOUT))
        call == CallFunc(func, args, kwargs, e, outcome)
    IN [exc |-> call.exc, value |-> call.value,
        events |->
            (IF haslock
             THEN << <<"acquire", lock_func[2], key, timeout, acquired>> >>
             ELSE <<>>)
            \o << <<"call", args, kwargs, call.exc>> >>
            \o (IF haslock THEN << <<"release", lock_func[2], key>> >> ELSE <<>>)]

\* the locked section: construct the lock on the key, acquire it with the
\* timeout, call func, release in the finally clause if the lock was acquired
Recompute(key, sname, func, args, kwargs, opts, e, acquired, outcome) ==
    LET lock_func == LockFunc(opts, sname)
        haslock == Truthy(lock_func)
        locked == haslock /\ acquired
        timeout == OptGetD(opts, "timeout", IntV(DEFAULT_TIMEOUT))
        call == CallFunc(func, args, kwargs, e, outcome)
    IN [exc |-> call.exc, value |-> call.value,
        events |->
            (IF haslock
             THEN << <<"acquire", lock_func[2], key, timeout, acquired>> >>
             ELSE <<>>)
            \o << <<"call", args, kwargs, call.exc>> >>
            \o (IF locked THEN << <<"release", lock_func[2], key>> >> ELSE <<>>)]

Min(a, b) == IF a < b THEN a ELSE b

\* mutant: a side that is None wins the minimum
NewEntryNoneWins(opts, creation, value) ==
    LET expiry == OptGet(opts, "expiry")
        max_age == OptGet(opts, "max_age")
        new_expiry ==
            IF max_age # None
            THEN IF expiry # None
                 THEN IntV(Min(expiry[2], creation + max_age[2]))
                 ELSE None
            ELSE expiry
    IN <<CURRENT_PROTOCOL_VERSION, creation, new_expiry, OptGet(opts, "etag"), value>>

\* mutant: the entry is written without its protocol version
NewEntryNoVersion(opts, creation, value) ==
    LET expiry == OptGet(opts, "expiry")
        max_age == OptGet(opts, "max_age")
        new_expiry ==
            IF max_age # None
            THEN IF expiry # None
                 THEN IntV(Min(expiry[2], creation + max_age[2]))
                 ELSE IntV(creation + max_age[2])
            ELSE expiry
    IN <<creation, new_expiry, OptGet(opts, "etag"), value>>

\* the entry get writes: expiry = min of the expiry option and
\* creation + max_age over the ones that are not None
NewEntry(opts, creation, value) ==
    LET expiry == OptGet(opts, "expiry")
        max_age == OptGet(opts, "max_age")
        new_expiry ==
            IF max_age # None
            THEN IF expiry # None
                 THEN IntV(Min(expiry[2], creation + max_age[2]))
                 ELSE IntV(creation + max_age[2])
            ELSE expiry
    IN <<CURRENT_PROTOCOL_VERSION, creation, new_expiry, OptGet(opts, "etag"), value>>

Result(st, x, ret, exc, events) ==
    [store |-> st, key |-> x.key, sname |-> x.sname, eff |-> x.opts,
     ret |-> ret, exc |-> exc, events |-> events]

\* mutant: the entry is written in the finally clause, also when func raised
GetStoreAlways(st, x, creation, r, read) ==
    Result(StoreSet(st, x.sname, x.key, NewEntry(x.opts, creation, r.value)),
           x, r.value, r.exc,
           read \o r.events \o << <<"set", x.sname, x.key>> >>)

\* after the locked section: the failure of func propagates and nothing is
\* written, else the new entry is stored and the value returned
GetStore(st, x, creation, r, read) ==
    IF r.exc # ""
    THEN Result(st, x, None, r.exc, read \o r.events)
    ELSE Result(StoreSet(st, x.sname, x.key, NewEntry(x.opts, creation, r.value)),
                x, r.value, "",
                read \o r.events \o << <<"set", x.sname, x.key>> >>)

\* the keys of the model are strings, so the isinstance(key, str) test passes
Get(rgs, st, t, e, key, func, args, kwargs, opts0, acquired, outcome) ==
    LET x0 == ExpandOpts(rgs, key, opts0)
        x == [x0 EXCEPT !.opts = DynamicEtag(x0.opts, args, kwargs, e)]
        data == StoreGet(st, x.sname, x.key)
        read == << <<"get", x.sname, x.key>> >>
    IN IF x0.exc # "" THEN Result(st, x0, None, x0.exc, <<>>)
       ELSE IF data # None /\ ~ProtocolOk(data)
       THEN Result(st, x, None, "AssertionError", read)
       ELSE IF data # None /\ ~HasExpired(data, x.opts, t)
       THEN Result(st, x, data[VALUE_INDEX], "", read)
       ELSE IF IsNone(func) THEN Result(st, x, None, "", read)
       ELSE GetStore(st, x, t,
                     Recompute(x.key, x.sname, func[2], args, kwargs, x.opts, e,
                               acquired, outcome),
                     read)

----------------------------------------------------------------------------
(* Memoizer.delete, expire_at, expire, ttl, etag, exists *)

Delete(rgs, st, key, opts0) ==
    LET x == ExpandOpts(rgs, key, opts0)
    IN IF x.exc # "" THEN Result(st, x, None, x.exc, <<>>)
       ELSE Result(StoreDel(st, x.sname, x.key), x, None, "",
                   << <<"del", x.sname, x.key>> >>)

\* mutant: the entry is rebuilt and loses its etag
WithExpiryReset(data, expiry) ==
    <<data[PROTOCOL_INDEX], data[CREATION_INDEX], expiry, None, data[VALUE_INDEX]>>

\* data = list(data); data[EXPIRY_INDEX] = expiry; store[key] = tuple(data)
WithExpiry(data, expiry) == [data EXCEPT ![EXPIRY_INDEX] = expiry]

\* mutant: expire_at on a missing key stores a fresh entry instead of raising
ExpireAtUpsert(rgs, st, key, expiry, opts0) ==
    LET x == ExpandOpts(rgs, key, opts0)
        data == StoreGet(st, x.sname, x.key)
        read == << <<"get", x.sname, x.key>> >>
    IN IF x.exc # "" THEN Result(st, x, None, x.exc, <<>>)
       ELSE IF data # None
       THEN Result(StoreSet(st, x.sname, x.key, WithExpiry(data, expiry)),
                   x, None, "",
                   read \o << <<"set", x.sname, x.key>> >>)
       ELSE Result(StoreSet(st, x.sname, x.key,
                            <<CURRENT_PROTOCOL_VERSION, 0, expiry, None, None>>),
                   x, None, "",
                   read \o << <<"set", x.sname, x.key>> >>)

ExpireAt(rgs, st, key, expiry, opts0) ==
    LET x == ExpandOpts(rgs, key, opts0)
        data == StoreGet(st, x.sname, x.key)
        read == << <<"get", x.sname, x.key>> >>
    IN IF x.exc # "" THEN Result(st, x, None, x.exc, <<>>)
       ELSE IF data # None
       THEN Result(StoreSet(st, x.sname, x.key, WithExpiry(data, expiry)),
                   x, None, "",
                   read \o << <<"set", x.sname, x.key>> >>)
       ELSE Result(st, x, None, "KeyError", read)

\* self.expire_at(key, time.time() + max_age, **opts)
Expire(rgs, st, t, key, max_age, opts0) ==
    ExpireAt(rgs, st, key, IntV(t + max_age), opts0)

\* native is what the store's own ttl query answers, when it has one
Ttl(rgs, st, t, key, opts0, native) ==
    LET x == ExpandOpts(rgs, key, opts0)
        data == StoreGet(st, x.sname, x.key)
        read == << <<"get", x.sname, x.key>> >>
    IN IF x.exc # "" THEN Result(st, x, None, x.exc, <<>>)
       ELSE IF StoreHasTtl(x.sname)
       THEN Result(st, x, native, "", << <<"ttl", x.sname, x.key>> >>)
       ELSE IF data = None THEN Result(st, x, None, "", read)
       ELSE IF data[EXPIRY_INDEX] # None
       THEN LET left == data[EXPIRY_INDEX][2] - t
            IN Result(st, x,
                      IF left > 0 THEN IntV(left) ELSE None, "", read)
       ELSE Result(st, x, None, "", read)

\* return data and data[ETAG_INDEX]
Etag(rgs, st, key, opts0) ==
    LET x == ExpandOpts(rgs, key, opts0)
        data == StoreGet(st, x.sname, x.key)
        read == << <<"get", x.sname, x.key>> >>
    IN IF x.exc # "" THEN Result(st, x, None, x.exc, <<>>)
       ELSE IF data = None THEN Result(st, x, None, "", read)
       ELSE Result(st, x, data[ETAG_INDEX], "", read)

BoolV(b) == <<"bool", b>>

\* mutant: an entry found expired is deleted
ExistsEvict(rgs, st, t, key, opts0) ==
    LET x == ExpandOpts(rgs, key, opts0)
        data == StoreGet(st, x.sname, x.key)
        read == << <<"get", x.sname, x.key>> >>
    IN IF x.exc # "" THEN Result(st, x, None, x.exc, <<>>)
       ELSE IF data = None THEN Result(st, x, BoolV(FALSE), "", read)
       ELSE IF ~ProtocolOk(data)
       THEN Result(st, x, None, "AssertionError", read)
       ELSE IF HasExpired(data, x.opts, t)
       THEN Result(StoreDel(st, x.sname, x.key), x, BoolV(FALSE), "", read)
       ELSE Result(st, x, BoolV(TRUE), "", read)

Exists(rgs, st, t, key, opts0) ==
    LET x == ExpandOpts(rgs, key, opts0)
        data == StoreGet(st, x.sname, x.key)
        read == << <<"get", x.sname, x.key>> >>
    IN IF x.exc # "" THEN Result(st, x, None, x.exc, <<>>)
       ELSE IF data = None THEN Result(st, x, BoolV(FALSE), "", read)
       ELSE IF ~ProtocolOk(data)
       THEN Result(st, x, None, "AssertionError", read)
       ELSE Result(st, x, BoolV(~HasExpired(data, x.opts, t)), "", read)

----------------------------------------------------------------------------
(* The operations of a MemoizedFunction *)

\* MemoizedFunction._expand_opts: opts.setdefault(k, v) for the decorator's options
MFExpandOpts(mf, opts) == SetDefaults(opts, mf.opts)

\* __call__: the key is built from a copy of the merged kwargs; func gets the
\* merged args, the kwargs of the call, and the decorator's options
MFCall(mf, rgs, st, t, e, args, kwargs, acquired, outcome) ==
    LET ex == ExpandArgs(mf, args, kwargs)
    IN Get(rgs, st, t, e, Key(mf, ex.args, ex.kwargs), FuncV(mf.func),
           ex.args, kwargs, mf.opts, acquired, outcome)

\* get: key pops the names it consumes from the merged kwargs, the dict that
\* is then passed on for func
MFGet(mf, rgs, st, t, e, args, kwargs, opts, acquired, outcome) ==
    LET ex == ExpandArgs(mf, args, kwargs)
    IN Get(rgs, st, t, e, Key(mf, ex.args, ex.kwargs), FuncV(mf.func),
           ex.args, KeyKwargs(mf.func, ex.args, ex.kwargs),
           MFExpandOpts(mf, opts), acquired, outcome)

\* delete, expire, expire_at, ttl, exists, etag expand opts and then call the
\* cache with the key alone
MFDelete(mf, rgs, st, args, kwargs, opts) ==
    LET ex == ExpandArgs(mf, args, kwargs)
    IN Delete(rgs, st, Key(mf, ex.args, ex.kwargs), EmptyDict)

MFExpire(mf, rgs, st, t, max_age, args, kwargs, opts) ==
    LET ex == ExpandArgs(mf, args, kwargs)
    IN Expire(rgs, st, t, Key(mf, ex.args, ex.kwargs), max_age, EmptyDict)

MFExpireAt(mf, rgs, st, max_age, args, kwargs, opts) ==
    LET ex == ExpandArgs(mf, args, kwargs)
    IN ExpireAt(rgs, st, Key(mf, ex.args, ex.kwargs), max_age, EmptyDict)

MFTtl(mf, rgs, st, t, args, kwargs, opts, native) ==
    LET ex == ExpandArgs(mf, args, kwargs)
    IN Ttl(rgs, st, t, Key(mf, ex.args, ex.kwargs), EmptyDict, native)

MFExists(mf, rgs, st, t, args, kwargs, opts) ==
    LET ex == ExpandArgs(mf, args, kwargs)
    IN Exists(rgs, st, t, Key(mf, ex.args, ex.kwargs), EmptyDict)

MFEtag(mf, rgs, st, args, kwargs, opts) ==
    LET ex == ExpandArgs(mf, args, kwargs)
    IN Etag(rgs, st, Key(mf, ex.args, ex.kwargs), EmptyDict)

----------------------------------------------------------------------------
(* A thread inside Memoizer.get: where it is and its local variables *)

IdleThread ==
    [pc |-> "idle", key |-> "", sname |-> "", eff |-> EmptyDict,
     locked |-> FALSE, holds |-> FALSE, exc |-> ""]

\* the sequential specifications run no thread
NoThreads == [t \in {} |-> IdleThread]

----------------------------------------------------------------------------
(* The record of an operation *)

NoOp ==
    [op |-> "none", func |-> "", key0 |-> "", args |-> <<>>, kwargs |-> <<>>,
     opts |-> EmptyDict, eff |-> EmptyDict, key |-> "", sname |-> "",
     ret |-> None, exc |-> "", events |-> <<>>]

----------------------------------------------------------------------------
(* The calls the model makes *)

ArgVals == {1, 5}
KwArgNames == {"a", "b", "c"}

RECURSIVE SeqsUpTo(_, _)
SeqsUpTo(S, n) ==
    IF n = 0 THEN {<<>>}
    ELSE LET shorter == SeqsUpTo(S, n - 1)
         IN shorter \cup {Append(s, x) : s \in shorter, x \in S}

ArgSeqs == SeqsUpTo(ArgVals, MaxArgs)

KwSeqs ==
    {kw \in SeqsUpTo(KwArgNames \X ArgVals, MaxKw) :
        \A i, j \in DOMAIN kw : i # j => kw[i][1] # kw[j][1]}

\* the calls of mf that Python accepts
ValidCall(mf, args, kwargs) ==
    LET e == ExpandArgs(mf, args, kwargs)
    IN CallBind(mf.func, e.args, e.kwargs).ok

----------------------------------------------------------------------------
(* SpecKey: the key builder on the functions of test_func_keys *)

KeyFns ==
    { Decorate(FuncF, <<>>, EmptyDict),
      Decorate(FuncH, <<"key">>, EmptyDict),
      Decorate(FuncG, <<"key", "sub">>, EmptyDict),
      Decorate(Func1, <<>>, EmptyDict),
      Bind(Decorate(FuncAppend, <<>>, EmptyDict), <<1>>, <<>>) }

InitKey ==
    /\ regions = EmptyDict
    /\ store = EmptyStores
    /\ now = 1
    /\ ext = 0
    /\ fn \in KeyFns
    /\ last = NoOp
    /\ threads = NoThreads

\* f.key(args, kwargs)
KeyOp ==
    \E args \in ArgSeqs, kwargs \in KwSeqs :
        /\ ValidCall(fn, args, kwargs)
        /\ LET e == ExpandArgs(fn, args, kwargs)
           IN last' = [NoOp EXCEPT !.op = "key", !.func = fn.func.name,
                                   !.args = args, !.kwargs = kwargs,
                                   !.ret = StrV(Key(fn, e.args, e.kwargs))]
        /\ UNCHANGED <<threads, regions, store, now, ext, fn>>

NextKey == KeyOp

SpecKey == InitKey /\ [][NextKey]_vars

----------------------------------------------------------------------------
(* Spec: the operations of a Memoizer, one after the other *)

\* test_region_parents: Memoizer(store, namespace='master') and regions a, b
RegionsParents ==
    [default |-> [store |-> StoreV("s0"), namespace |-> StrV("master")],
     a |-> [namespace |-> StrV("a"), expiry |-> IntV(1)],
     b |-> [namespace |-> StrV("b"), parent |-> StrV("a")]]

\* test_region and test_lock: a region with a store of its own, a region
\* with a lock constructor
RegionsStores ==
    [default |-> [store |-> StoreV("s0")],
     a |-> [store |-> StoreV("s1"), namespace |-> StrV("a")],
     b |-> [parent |-> StrV("a"), lock |-> FnV("Lock")]]

\* test_dynamic_etag, test_memo_basics: Memoizer(store)
RegionsPlain ==
    [default |-> [store |-> StoreV("s0")]]

RegionConfigs == {RegionsParents, RegionsStores, RegionsPlain}

\* the options of the calls made under each configuration
CallOptsOf(rgs) ==
    IF rgs = RegionsParents
    THEN { EmptyDict,
           [region |-> StrV("b")],
           [region |-> StrV("b"), namespace |-> None],
           [region |-> StrV("b"), namespace |-> StrV("")] }
    ELSE IF rgs = RegionsStores
    THEN { EmptyDict,
           [region |-> StrV("a")],
           [region |-> StrV("b")],
           [region |-> StrV("a"), lock |-> FnV("Lock"), timeout |-> IntV(5)] }
    ELSE { EmptyDict,
           [max_age |-> IntV(1)],
           [expiry |-> IntV(2)],
           [etag |-> IntV(1)],
           [etagger |-> FnV("etagger")] }

BaseKeys == {"key"}
ExpiryArgs == {IntV(2)}
MaxAgeArgs == {1}
NativeTtls == {None, IntV(1)}

Init ==
    /\ regions \in RegionConfigs
    /\ store = EmptyStores
    /\ now = 1
    /\ ext = 0
    /\ fn = Decorate(FuncStr, <<>>, EmptyDict)
    /\ last = NoOp
    /\ threads = NoThreads

\* the record of a facade operation with result r
FacadeRec(op, func, key, args, kwargs, opts, r) ==
    [op |-> op, func |-> func, key0 |-> key, args |-> args, kwargs |-> kwargs,
     opts |-> opts, eff |-> r.eff, key |-> r.key, sname |-> r.sname,
     ret |-> r.ret, exc |-> r.exc, events |-> r.events]

Finish(rec, r) ==
    /\ store' = r.store
    /\ last' = rec

\* memo.get(key, func, **opts)
GetOp ==
    \E key \in BaseKeys, opts \in CallOptsOf(regions),
       acquired \in BOOLEAN, outcome \in {"ok", "raise"} :
        LET r == Get(regions, store, now, ext, key, FuncV(FuncStr), <<>>, <<>>,
                     opts, acquired, outcome)
        IN /\ Finish(FacadeRec("get", "str", key, <<>>, <<>>, opts, r), r)
           /\ UNCHANGED <<threads, regions, now, ext, fn>>

\* memo.get(key, **opts), without a func
PeekOp ==
    \E key \in BaseKeys, opts \in CallOptsOf(regions) :
        LET r == Get(regions, store, now, ext, key, None, <<>>, <<>>,
                     opts, FALSE, "ok")
        IN /\ Finish(FacadeRec("peek", "", key, <<>>, <<>>, opts, r), r)
           /\ UNCHANGED <<threads, regions, now, ext, fn>>

DeleteOp ==
    \E key \in BaseKeys, opts \in CallOptsOf(regions) :
        LET r == Delete(regions, store, key, opts)
        IN /\ Finish(FacadeRec("delete", "", key, <<>>, <<>>, opts, r), r)
           /\ UNCHANGED <<threads, regions, now, ext, fn>>

ExpireAtOp ==
    \E key \in BaseKeys, opts \in CallOptsOf(regions), expiry \in ExpiryArgs :
        LET r == ExpireAt(regions, store, key, expiry, opts)
        IN /\ Finish(FacadeRec("expire_at", "", key, <<expiry>>, <<>>, opts, r), r)
           /\ UNCHANGED <<threads, regions, now, ext, fn>>

ExpireOp ==
    \E key \in BaseKeys, opts \in CallOptsOf(regions), max_age \in MaxAgeArgs :
        LET r == Expire(regions, store, now, key, max_age, opts)
        IN /\ Finish(FacadeRec("expire", "", key, <<max_age>>, <<>>, opts, r), r)
           /\ UNCHANGED <<threads, regions, now, ext, fn>>

TtlOp ==
    \E key \in BaseKeys, opts \in CallOptsOf(regions), native \in NativeTtls :
        LET r == Ttl(regions, store, now, key, opts, native)
        IN /\ Finish(FacadeRec("ttl", "", key, <<>>, <<>>, opts, r), r)
           /\ UNCHANGED <<threads, regions, now, ext, fn>>

EtagOp ==
    \E key \in BaseKeys, opts \in CallOptsOf(regions) :
        LET r == Etag(regions, store, key, opts)
        IN /\ Finish(FacadeRec("etag", "", key, <<>>, <<>>, opts, r), r)
           /\ UNCHANGED <<threads, regions, now, ext, fn>>

ExistsOp ==
    \E key \in BaseKeys, opts \in CallOptsOf(regions) :
        LET r == Exists(regions, store, now, key, opts)
        IN /\ Finish(FacadeRec("exists", "", key, <<>>, <<>>, opts, r), r)
           /\ UNCHANGED <<threads, regions, now, ext, fn>>

\* time passes
Tick ==
    /\ now < MaxTime
    /\ now' = now + 1
    /\ UNCHANGED <<threads, regions, store, ext, fn, last>>

\* the state the etagger reads changes (state.extend in test_dynamic_etag)
ChangeExt ==
    /\ ext < MaxExt
    /\ ext' = ext + 1
    /\ UNCHANGED <<threads, regions, store, now, fn, last>>

Next ==
    \/ GetOp
    \/ PeekOp
    \/ DeleteOp
    \/ ExpireAtOp
    \/ ExpireOp
    \/ TtlOp
    \/ EtagOp
    \/ ExistsOp
    \/ Tick

Spec == Init /\ [][Next]_vars

----------------------------------------------------------------------------
(* SpecOpts: option resolution over a family of region configurations *)

\* the dicts that set any of the keys of V, key k to a value of V[k]
PartialDicts(V) ==
    UNION { {d \in [D -> UNION {V[k] : k \in D}] : \A k \in D : d[k] \in V[k]} :
            D \in SUBSET DOMAIN V }

\* Memoizer(store, **kwargs): the default region always has the store
DefaultRegions ==
    { SetDefaults([store |-> StoreV("s0")], d) :
        d \in PartialDicts([namespace |-> {StrV("master")},
                            expiry |-> {None, IntV(2)}]) }

ARegions ==
    PartialDicts([namespace |-> {None, StrV("a")},
                  expiry |-> {IntV(1)},
                  store |-> {StoreV("s1")},
                  parent |-> {StrV("b")}])

BRegions ==
    PartialDicts([namespace |-> {StrV("b")},
                  expiry |-> {None},
                  parent |-> {StrV("a")}])

OptRegionConfigs ==
    { [default |-> d, a |-> ra, b |-> rb] :
        d \in DefaultRegions, ra \in ARegions, rb \in BRegions }

\* "zz" names no region
OptCalls ==
    PartialDicts([region |-> {StrV("a"), StrV("b"), StrV("zz")},
                  namespace |-> {None, StrV("c")},
                  expiry |-> {IntV(3)}])

InitOpts ==
    /\ regions \in OptRegionConfigs
    /\ store = EmptyStores
    /\ now = 1
    /\ ext = 0
    /\ fn = Decorate(FuncStr, <<>>, EmptyDict)
    /\ last = NoOp
    /\ threads = NoThreads

\* key, store = self._expand_opts(key, opts)
ResolveOp ==
    \E key \in BaseKeys, opts \in OptCalls :
        LET x == ExpandOpts(regions, key, opts)
        IN /\ last' = [NoOp EXCEPT !.op = "resolve", !.key0 = key, !.opts = opts,
                                   !.eff = x.opts, !.key = x.key,
                                   !.sname = x.sname, !.exc = x.exc]
           /\ UNCHANGED <<threads, regions, store, now, ext, fn>>

NextOpts == ResolveOp

SpecOpts == InitOpts /\ [][NextOpts]_vars

----------------------------------------------------------------------------
(* SpecFunc: the operations of a decorated function *)

\* test_namespace: Memoizer(store, namespace='ns'); region a has its own store
RegionsFunc ==
    [default |-> [store |-> StoreV("s0"), namespace |-> StrV("ns")],
     a |-> [store |-> StoreV("s1")]]

FuncFns ==
    { Decorate(Func1, <<>>, EmptyDict),
      Decorate(FuncGArgs, <<>>, [namespace |-> StrV("ns2")]),
      Decorate(Func1, <<>>, [region |-> StrV("a")]),
      Decorate(FuncStateSum, <<>>, [etag |-> FnV("etagger")]),
      Decorate(FuncStateSum, <<>>, [etagger |-> FnV("etagger")]),
      Bind(Decorate(FuncAppend, <<>>, EmptyDict), <<1>>, <<>>) }

\* the arguments of the calls, and the options given to the operations
FuncArgs == {<<>>, <<5>>}
FuncKwargs == {<<>>}
FuncOpts == {EmptyDict, [max_age |-> IntV(1)]}

InitFunc ==
    /\ regions = RegionsFunc
    /\ store = EmptyStores
    /\ now = 1
    /\ ext = 0
    /\ fn \in FuncFns
    /\ last = NoOp
    /\ threads = NoThreads

\* f(*args, **kwargs)
CallOp ==
    \E args \in FuncArgs, kwargs \in FuncKwargs,
       acquired \in BOOLEAN, outcome \in {"ok", "raise"} :
        /\ ValidCall(fn, args, kwargs)
        /\ LET ex == ExpandArgs(fn, args, kwargs)
               r == MFCall(fn, regions, store, now, ext, args, kwargs,
                           acquired, outcome)
           IN Finish(FacadeRec("call", fn.func.name, Key(fn, ex.args, ex.kwargs),
                               args, kwargs, EmptyDict, r), r)
        /\ UNCHANGED <<threads, regions, now, ext, fn>>

\* f.get(args, kwargs, **opts)
FGetOp ==
    \E args \in FuncArgs, kwargs \in FuncKwargs, opts \in FuncOpts,
       acquired \in BOOLEAN, outcome \in {"ok", "raise"} :
        /\ ValidCall(fn, args, kwargs)
        /\ LET ex == ExpandArgs(fn, args, kwargs)
               r == MFGet(fn, regions, store, now, ext, args, kwargs, opts,
                          acquired, outcome)
           IN Finish(FacadeRec("f.get", fn.func.name, Key(fn, ex.args, ex.kwargs),
                               args, kwargs, opts, r), r)
        /\ UNCHANGED <<threads, regions, now, ext, fn>>

FDeleteOp ==
    \E args \in FuncArgs, kwargs \in FuncKwargs, opts \in FuncOpts :
        /\ ValidCall(fn, args, kwargs)
        /\ LET ex == ExpandArgs(fn, args, kwargs)
               r == MFDelete(fn, regions, store, args, kwargs, opts)
           IN Finish(FacadeRec("f.delete", fn.func.name, Key(fn, ex.args, ex.kwargs),
                               args, kwargs, opts, r), r)
        /\ UNCHANGED <<threads, regions, now, ext, fn>>

FExpireOp ==
    \E args \in FuncArgs, kwargs \in FuncKwargs, opts \in FuncOpts,
       max_age \in MaxAgeArgs :
        /\ ValidCall(fn, args, kwargs)
        /\ LET ex == ExpandArgs(fn, args, kwargs)
               r == MFExpire(fn, regions, store, now, max_age, args, kwargs, opts)
           IN Finish(FacadeRec("f.expire", fn.func.name, Key(fn, ex.args, ex.kwargs),
                               args, kwargs, opts, r), r)
        /\ UNCHANGED <<threads, regions, now, ext, fn>>

FExpireAtOp ==
    \E args \in FuncArgs, kwargs \in FuncKwargs, opts \in FuncOpts,
       expiry \in ExpiryArgs :
        /\ ValidCall(fn, args, kwargs)
        /\ LET ex == ExpandArgs(fn, args, kwargs)
               r == MFExpireAt(fn, regions, store, expiry, args, kwargs, opts)
           IN Finish(FacadeRec("f.expire_at", fn.func.name, Key(fn, ex.args, ex.kwargs),
                               args, kwargs, opts, r), r)
        /\ UNCHANGED <<threads, regions, now, ext, fn>>

FTtlOp ==
    \E args \in FuncArgs, kwargs \in FuncKwargs, opts \in FuncOpts,
       native \in NativeTtls :
        /\ ValidCall(fn, args, kwargs)
        /\ LET ex == ExpandArgs(fn, args, kwargs)
               r == MFTtl(fn, regions, store, now, args, kwargs, opts, native)
           IN Finish(FacadeRec("f.ttl", fn.func.name, Key(fn, ex.args, ex.kwargs),
                               args, kwargs, opts, r), r)
        /\ UNCHANGED <<threads, regions, now, ext, fn>>

FExistsOp ==
    \E args \in FuncArgs, kwargs \in FuncKwargs, opts \in FuncOpts :
        /\ ValidCall(fn, args, kwargs)
        /\ LET ex == ExpandArgs(fn, args, kwargs)
               r == MFExists(fn, regions, store, now, args, kwargs, opts)
           IN Finish(FacadeRec("f.exists", fn.func.name, Key(fn, ex.args, ex.kwargs),
                               args, kwargs, opts, r), r)
        /\ UNCHANGED <<threads, regions, now, ext, fn>>

FEtagOp ==
    \E args \in FuncArgs, kwargs \in FuncKwargs, opts \in FuncOpts :
        /\ ValidCall(fn, args, kwargs)
        /\ LET ex == ExpandArgs(fn, args, kwargs)
               r == MFEtag(fn, regions, store, args, kwargs, opts)
           IN Finish(FacadeRec("f.etag", fn.func.name, Key(fn, ex.args, ex.kwargs),
                               args, kwargs, opts, r), r)
        /\ UNCHANGED <<threads, regions, now, ext, fn>>

NextFunc ==
    \/ CallOp
    \/ FGetOp
    \/ FDeleteOp
    \/ FExpireOp
    \/ FExpireAtOp
    \/ FTtlOp
    \/ FExistsOp
    \/ FEtagOp
    \/ Tick
    \/ ChangeExt

SpecFunc == InitFunc /\ [][NextFunc]_vars

----------------------------------------------------------------------------
(* Claims on the key builder *)

\* the binding of the parameters that the call recorded in rec denotes
BindingOf(rec) ==
    LET e == ExpandArgs(fn, rec.args, rec.kwargs)
        b == CallBind(fn.func, e.args, e.kwargs)
    IN <<b.named, b.star, b.kw>>

\* C1: two calls of one function that bind the same value to every parameter
\* after default-filling get the same key from MemoizedFunction.key.
C1_SameBindingSameKey ==
    [][ (last.op = "key" /\ last'.op = "key" /\ BindingOf(last) = BindingOf(last'))
            => last'.ret = last.ret ]_vars

----------------------------------------------------------------------------
(* Claims on Memoizer.get: failure, lock order *)

HasEvent(rec, kind) == \E i \in DOMAIN rec.events : rec.events[i][1] = kind
EventOf(rec, kind) ==
    rec.events[CHOOSE i \in DOMAIN rec.events : rec.events[i][1] = kind]
CountEvents(rec, kind) ==
    Cardinality({i \in DOMAIN rec.events : rec.events[i][1] = kind})
\* the call of func in rec raised
FuncRaised(rec) == HasEvent(rec, "call") /\ EventOf(rec, "call")[4] # ""
\* the lock was acquired in rec
Acquired(rec) == HasEvent(rec, "acquire") /\ EventOf(rec, "acquire")[5]
StoreSize(st) == Cardinality({<<s, k>> \in StoreNames \X UNION {DOMAIN st[s] : s \in StoreNames} :
                                k \in DOMAIN st[s]})

\* C3: when the computation get invokes raises, the same failure reaches the
\* caller, the store is exactly as before the call, no entry is written, and
\* an acquired lock has been released after the call and before get returns.
C3_FailureLeavesStore ==
    [][ (last'.op = "get" /\ FuncRaised(last'))
            => /\ last'.exc = EventOf(last', "call")[4]
               /\ store' = store
               /\ ~HasEvent(last', "set")
               /\ Acquired(last') =>
                    /\ CountEvents(last', "release") = 1
                    /\ last'.events[Len(last'.events)]
                         = <<"release", EventOf(last', "acquire")[2], last'.key>>
      ]_vars

C3_Witness ==
    /\ last.op = "get"
    /\ FuncRaised(last)
    /\ last.exc = "ValueError"
    /\ Acquired(last)
    /\ HasEvent(last, "release")
    /\ StoreSize(store) >= 1

\* C4: a get that recomputes under a lock it acquired does, in this order and
\* once each: acquire the lock made for the final key, call func, release the
\* lock, write the store under the final key.
C4_LockOrder ==
    (last.op = "get" /\ Acquired(last) /\ last.exc = "")
        => LET lf == EventOf(last, "acquire")[2]
               timeout == EventOf(last, "acquire")[4]
           IN last.events =
                << <<"get", last.sname, last.key>>,
                   <<"acquire", lf, last.key, timeout, TRUE>>,
                   <<"call", last.args, last.kwargs, "">>,
                   <<"release", lf, last.key>>,
                   <<"set", last.sname, last.key>> >>

C4_Witness ==
    /\ last.op = "get"
    /\ Acquired(last)
    /\ last.exc = ""
    /\ last.key = "a:key"
    /\ last.key \in DOMAIN store[last.sname]
    /\ EventOf(last, "acquire")[3] = "a:key"

----------------------------------------------------------------------------
(* Claims on the namespace of the key *)

RECURSIVE ParentChain(_, _, _)
\* the regions of a call in precedence order: its region, the parents, 'default'
ParentChain(rgs, region, n) ==
    IF region = "default" \/ n = 0 \/ region \notin DOMAIN rgs THEN <<region>>
    ELSE <<region>> \o ParentChain(rgs,
                        IF "parent" \in DOMAIN rgs[region]
                        THEN RegionName(rgs[region]["parent"]) ELSE "default",
                        n - 1)

\* the regions of the chain are known and the chain ends in 'default'
ChainReachesDefault(rgs, c) ==
    /\ \A i \in DOMAIN c : c[i] \in DOMAIN rgs
    /\ c[Len(c)] = "default"

\* the regions of a call with options opts
CallChain(rgs, opts) ==
    ParentChain(rgs,
                IF "region" \in DOMAIN opts THEN RegionName(opts["region"])
                ELSE "default", Cardinality(DOMAIN rgs))

\* the option dicts of a call in precedence order
Sources(rgs, opts) ==
    LET c == CallChain(rgs, opts)
    IN <<opts>> \o [i \in DOMAIN c |-> IF c[i] \in DOMAIN rgs THEN rgs[c[i]] ELSE EmptyDict]

\* the value of the first source that sets option k; None if none does
FirstSet(srcs, k) ==
    IF \E i \in DOMAIN srcs : k \in DOMAIN srcs[i]
    THEN LET i == CHOOSE i \in DOMAIN srcs :
                    /\ k \in DOMAIN srcs[i]
                    /\ \A j \in 1..(i - 1) : k \notin DOMAIN srcs[j]
         IN srcs[i][k]
    ELSE None

FacadeOps == {"get", "peek", "delete", "expire_at", "expire", "ttl", "etag", "exists"}

\* C6: the key a facade call uses against the store is '<namespace>:<key>'
\* when the effective namespace is non-empty and the bare key otherwise, so a
\* call-site namespace of None or '' reaches the un-prefixed key.
C6_NamespaceKey ==
    (last.op \in FacadeOps /\ last.exc \notin {"KeyError", "hang"})
        => LET ns == FirstSet(Sources(regions, last.opts), "namespace")
               final == IF ns \notin {None, StrV("")}
                        THEN ns[2] \o ":" \o last.key0 ELSE last.key0
           IN /\ last.key = final
              /\ \A i \in DOMAIN last.events :
                    last.events[i][1] \in {"get", "set", "del", "ttl"}
                        => last.events[i][3] = final

C6_Witness ==
    /\ last.op = "get"
    /\ "namespace" \in DOMAIN last.opts
    /\ last.opts["namespace"] = None
    /\ FirstSet(Tail(Sources(regions, last.opts)), "namespace") = StrV("b")
    /\ HasEvent(last, "set")
    /\ EventOf(last, "set")[3] = "key"
    /\ "key" \in DOMAIN store["s0"]
    /\ "b:key" \in DOMAIN store["s0"]

----------------------------------------------------------------------------
(* Frame claims *)

ReadOnlyOps == {"exists", "ttl", "etag", "peek"}

\* C9: exists, ttl, etag and get without a func never change the store; an
\* entry found expired is neither deleted nor rewritten.
C9_ReadOnly ==
    [][ last'.op \in ReadOnlyOps => store' = store ]_vars

C9_Witness ==
    /\ last.op = "exists"
    /\ last.ret = BoolV(FALSE)
    /\ last.key \in DOMAIN store[last.sname]
    /\ HasExpired(store[last.sname][last.key], last.opts, now)

\* C10: expire_at(key, t) on an existing entry replaces the entry's expiry by
\* t and leaves its protocol version, creation time, etag and value and every
\* other entry of every store as they were; expire(key, max_age) does the
\* same with t = now + max_age.
C10_ExpireAtFrame ==
    [][ (now' = now /\ last'.op \in {"expire_at", "expire"} /\ last'.exc = "")
            => LET s == last'.sname
                   k == last'.key
                   t == IF last'.op = "expire_at" THEN last'.args[1]
                        ELSE IntV(now + last'.args[1])
               IN /\ k \in DOMAIN store[s]
                  /\ \A s2 \in StoreNames : DOMAIN store'[s2] = DOMAIN store[s2]
                  /\ \A s2 \in StoreNames : \A k2 \in DOMAIN store[s2] :
                        <<s2, k2>> # <<s, k>> => store'[s2][k2] = store[s2][k2]
                  /\ store'[s][k] =
                        << store[s][k][PROTOCOL_INDEX], store[s][k][CREATION_INDEX],
                           t, store[s][k][ETAG_INDEX], store[s][k][VALUE_INDEX] >>
      ]_vars

C10_Witness ==
    /\ last.op = "expire_at"
    /\ last.exc = ""
    /\ StoreSize(store) >= 2
    /\ store[last.sname][last.key][EXPIRY_INDEX] = last.args[1]
    /\ store[last.sname][last.key][CREATION_INDEX] < now

----------------------------------------------------------------------------
(* Claims on option resolution *)

\* C5: when the parent chain of the call's region reaches 'default', every
\* option of the effective options has the value of the first source that
\* sets it, in the order call-site options, the call's region, its ancestors
\* in parent order, 'default'; a key set to None is set and is not overwritten.
C5_FirstSetWins ==
    (last.op = "resolve" /\ ChainReachesDefault(regions, CallChain(regions, last.opts)))
        => LET srcs == Sources(regions, last.opts)
           IN /\ last.exc = ""
              /\ DOMAIN last.eff = UNION {DOMAIN srcs[i] : i \in DOMAIN srcs}
              /\ \A k \in DOMAIN last.eff : last.eff[k] = FirstSet(srcs, k)
              /\ last.sname = FirstSet(srcs, "store")[2]

C5_Witness ==
    /\ last.op = "resolve"
    /\ CallChain(regions, last.opts) = <<"b", "a", "default">>
    /\ last.exc = ""
    /\ "namespace" \in DOMAIN last.opts /\ last.opts["namespace"] = None
    /\ "namespace" \in DOMAIN regions["b"]
    /\ last.eff["namespace"] = None
    /\ "expiry" \in DOMAIN regions["b"] /\ regions["b"]["expiry"] = None
    /\ "expiry" \in DOMAIN regions["a"]
    /\ "expiry" \notin DOMAIN last.opts
    /\ last.eff["expiry"] = None
    /\ last.sname = "s1"

----------------------------------------------------------------------------
(* Claims on the decorated function *)

\* a step that is an operation: the clock and the external state stand still
OpStep == now' = now /\ ext' = ext

SameArgs(r1, r2) == r1.args = r2.args /\ r1.kwargs = r2.kwargs

TimeOptions == {"expiry", "max_age", "etag", "etagger"}

\* neither the decorator nor a region of its chain sets an expiry option
NoExpiryInEffect ==
    \A i \in DOMAIN Sources(regions, fn.opts) :
        DOMAIN Sources(regions, fn.opts)[i] \cap TimeOptions = {}

\* every entry of the stores is the one under the key of rec
OnlyEntryOf(rec) ==
    \A s \in StoreNames : \A k \in DOMAIN store[s] : s = rec.sname /\ k = rec.key

\* C2: with no expiry, max_age or etag in effect, a call that finds no entry
\* for its key invokes the computation once; the next call with the same
\* arguments invokes it not at all and returns the same value; a following
\* call with different arguments invokes it again.
C2_ComputedOnce ==
    [][ (OpStep /\ last'.op = "call" /\ NoExpiryInEffect)
            => /\ last'.key \notin DOMAIN store[last'.sname]
                    => CountEvents(last', "call") = 1
               /\ (last.op = "call" /\ last.exc = "" /\ HasEvent(last, "call")
                        /\ SameArgs(last, last'))
                    => /\ CountEvents(last', "call") = 0
                       /\ last'.exc = ""
                       /\ last'.ret = last.ret
               /\ (last.op = "call" /\ last.exc = "" /\ OnlyEntryOf(last)
                        /\ BindingOf(last) # BindingOf(last'))
                    => CountEvents(last', "call") = 1
      ]_vars

C2_Witness ==
    /\ last.op = "call"
    /\ NoExpiryInEffect
    /\ last.exc = ""
    /\ ~HasEvent(last, "call")
    /\ last.key \in DOMAIN store[last.sname]
    /\ last.ret = store[last.sname][last.key][VALUE_INDEX]
    /\ store[last.sname][last.key][CREATION_INDEX] < now

\* the decorator's etag option is a callable
EtagCallable == "etag" \in DOMAIN fn.opts /\ fn.opts["etag"][1] = "fn"

\* C7: a function decorated with a callable as its etag option returns the
\* cached value without recomputing while the callable's result is what it
\* was when the value was computed, and recomputes and stores a new value on
\* the first call after the callable's result has changed.
C7_DynamicEtag ==
    [][ (OpStep /\ EtagCallable /\ last.op = "call" /\ last.exc = ""
            /\ last'.op = "call" /\ last'.exc = "" /\ SameArgs(last, last'))
            => IF CallEtagger(fn.opts["etag"], <<>>, <<>>, ext) = IntV(last.ret[6])
               THEN ~HasEvent(last', "call") /\ last'.ret = last.ret
               ELSE HasEvent(last', "call") /\ HasEvent(last', "set")
      ]_vars

WrapperOps == {"f.get", "f.delete", "f.expire", "f.expire_at", "f.ttl", "f.exists", "f.etag"}

\* C8: every operation of a decorated function applies the decorator's
\* options and so addresses the store and final key of the call that stored
\* the entry: after f(x) succeeds f.exists((x,)) is true, f.etag reads that
\* entry and f.delete((x,)) removes it.
C8_SameEntry ==
    [][ (OpStep /\ last.op = "call" /\ last.exc = "" /\ last'.op \in WrapperOps
            /\ last'.opts = EmptyDict /\ SameArgs(last, last'))
            => /\ last'.key = last.key
               /\ last'.sname = last.sname
               /\ last'.op = "f.exists" => last'.ret = BoolV(TRUE)
               /\ last'.op = "f.etag" => last'.ret = store[last.sname][last.key][ETAG_INDEX]
               /\ last'.op = "f.delete" => last.key \notin DOMAIN store'[last.sname]
      ]_vars

----------------------------------------------------------------------------
(* Claims on a key that has no entry *)

\* the entries of st other than the one under key k of store s
Others(st, s, k) ==
    [s2 \in StoreNames |->
        [k2 \in DOMAIN st[s2] \ (IF s2 = s THEN {k} ELSE {}) |-> st[s2][k2]]]

\* C11: on a key with no entry delete completes without error and expire_at
\* and expire raise KeyError, the store unchanged in both cases; after any
\* delete the key is absent and every other entry is as it was, so a second
\* delete changes nothing.
C11_MissingKey ==
    [][ (last'.op \in {"delete", "expire_at", "expire"})
            => LET s == last'.sname
                   k == last'.key
                   missing == k \notin DOMAIN store[s]
               IN /\ last'.op = "delete"
                    => /\ last'.exc = ""
                       /\ k \notin DOMAIN store'[s]
                       /\ Others(store', s, k) = Others(store, s, k)
                       /\ missing => store' = store
                       /\ (last.op = "delete" /\ last.key = k /\ last.sname = s)
                            => store' = store
                  /\ (last'.op # "delete" /\ missing)
                    => /\ last'.exc = "KeyError"
                       /\ store' = store
      ]_vars

C11_Witness ==
    /\ last.op = "expire"
    /\ last.exc = "KeyError"
    /\ last.key \notin DOMAIN store[last.sname]
    /\ StoreSize(store) >= 1

----------------------------------------------------------------------------
(* SpecExpiry: the expiry check over entries and options whose times range
   from 0 *)

\* the expiry and max_age values of the calls, 0 included
ExpiryTimes == 0..MaxTime

ExpiryOpts ==
    {EmptyDict, [etag |-> IntV(1)]}
    \cup {[expiry |-> IntV(t)] : t \in ExpiryTimes}
    \cup {[max_age |-> IntV(t)] : t \in 0..1}
    \cup {[expiry |-> IntV(t), max_age |-> IntV(0)] : t \in ExpiryTimes}
    \cup {[expiry |-> None, max_age |-> IntV(1)]}

InitExpiry ==
    /\ regions = RegionsPlain
    /\ store = EmptyStores
    /\ now = 1
    /\ ext = 0
    /\ fn = Decorate(FuncStr, <<>>, EmptyDict)
    /\ last = NoOp
    /\ threads = NoThreads

\* memo.get(key, str, **opts)
EGetOp ==
    \E key \in BaseKeys, opts \in ExpiryOpts :
        LET r == Get(regions, store, now, ext, key, FuncV(FuncStr), <<>>, <<>>,
                     opts, FALSE, "ok")
        IN /\ Finish(FacadeRec("get", "str", key, <<>>, <<>>, opts, r), r)
           /\ UNCHANGED <<threads, regions, now, ext, fn>>

\* memo.expire_at(key, expiry)
EExpireAtOp ==
    \E key \in BaseKeys, t \in ExpiryTimes :
        LET r == ExpireAt(regions, store, key, IntV(t), EmptyDict)
        IN /\ Finish(FacadeRec("expire_at", "", key, <<IntV(t)>>, <<>>, EmptyDict, r), r)
           /\ UNCHANGED <<threads, regions, now, ext, fn>>

\* memo.exists(key, **opts)
EExistsOp ==
    \E key \in BaseKeys, opts \in ExpiryOpts :
        LET r == Exists(regions, store, now, key, opts)
        IN /\ Finish(FacadeRec("exists", "", key, <<>>, <<>>, opts, r), r)
           /\ UNCHANGED <<threads, regions, now, ext, fn>>

NextExpiry ==
    \/ EGetOp
    \/ EExpireAtOp
    \/ EExistsOp
    \/ Tick

SpecExpiry == InitExpiry /\ [][NextExpiry]_vars

----------------------------------------------------------------------------
(* Claims on the expiry check *)

\* the four conditions as stated, a time of 0 being a time like any other
StatedExpired(data, opts, t) ==
    \/ data[EXPIRY_INDEX] # None /\ data[EXPIRY_INDEX][2] < t
    \/ OptGet(opts, "etag") # None /\ OptGet(opts, "etag") # data[ETAG_INDEX]
    \/ OptGet(opts, "expiry") # None /\ OptGet(opts, "expiry")[2] < t
    \/ OptGet(opts, "max_age") # None
        /\ data[CREATION_INDEX] + OptGet(opts, "max_age")[2] < t

\* C12: an entry of the current protocol version is judged expired exactly
\* when its stored expiry is set and before now, or the options give an etag
\* other than the stored one, or the options give an expiry before now, or
\* the options give a max_age and creation + max_age is before now; times
\* range over all values, 0 included.
C12_ExpiredIff ==
    [][ (now' = now /\ last'.op = "exists"
            /\ last'.key \in DOMAIN store[last'.sname])
            => last'.ret =
                 BoolV(~StatedExpired(store[last'.sname][last'.key], last'.eff, now))
      ]_vars

----------------------------------------------------------------------------
(* Claims on the lock of Memoizer.get *)

\* C13: get releases the lock exactly once, after the call of func, when
\* acquire returned success, whether func returned or raised; when no lock
\* constructor is in effect or acquire failed, release is never called.
C13_ReleaseIffAcquired ==
    last.op = "get"
        => IF Acquired(last)
           THEN /\ CountEvents(last, "release") = 1
                /\ CountEvents(last, "acquire") = 1
                /\ \E i, j \in DOMAIN last.events :
                      /\ last.events[i][1] = "call"
                      /\ last.events[j] =
                            <<"release", EventOf(last, "acquire")[2], last.key>>
                      /\ i < j
           ELSE CountEvents(last, "release") = 0

C13_Witness ==
    /\ last.op = "get"
    /\ HasEvent(last, "acquire")
    /\ ~Acquired(last)
    /\ FuncRaised(last)
    /\ ~HasEvent(last, "release")

\* C14: when acquire returns false get reports no error of its own and does
\* the work all the same: func is called once and its value is stored and
\* returned as it is without a lock; a lock given at the call site is used in
\* preference to the store's own lock.
C14_TimeoutProceeds ==
    [][ (now' = now /\ last'.op = "get" /\ HasEvent(last', "acquire"))
            => LET s == last'.sname
                   k == last'.key
                   acq == EventOf(last', "acquire")
                   value == FuncValue(FuncStr, last'.args, last'.kwargs, ext)
               IN /\ "lock" \in DOMAIN last'.opts => acq[2] = last'.opts["lock"][2]
                  /\ ~Acquired(last')
                        => /\ CountEvents(last', "call") = 1
                           /\ last'.exc = EventOf(last', "call")[4]
                           /\ last'.exc = ""
                                => /\ last'.ret = value
                                   /\ k \in DOMAIN store'[s]
                                   /\ store'[s][k] = NewEntry(last'.eff, now, value)
                                   /\ last'.events =
                                        << <<"get", s, k>>, acq,
                                           <<"call", last'.args, last'.kwargs, "">>,
                                           <<"set", s, k>> >>
      ]_vars

C14_Witness ==
    /\ last.op = "get"
    /\ HasEvent(last, "acquire")
    /\ ~Acquired(last)
    /\ last.exc = ""
    /\ "lock" \in DOMAIN last.opts
    /\ StoreLock(last.sname) # None
    /\ EventOf(last, "acquire")[2] = "Lock"
    /\ last.key \in DOMAIN store[last.sname]
    /\ store[last.sname][last.key][VALUE_INDEX] = last.ret

----------------------------------------------------------------------------
(* Claims on the entry get writes *)

\* the expiry option and creation + max_age, for the options that are set
ExpirySides(opts, creation) ==
    (IF OptGet(opts, "expiry") # None THEN {OptGet(opts, "expiry")[2]} ELSE {})
    \cup (IF OptGet(opts, "max_age") # None
          THEN {creation + OptGet(opts, "max_age")[2]} ELSE {})

\* C15: the expiry of an entry written by get is the minimum of the expiry
\* option and creation + max_age when both are set, creation + max_age when
\* only max_age is set, the expiry option when only it is set, and unset when
\* neither is; a side that is unset never wins the minimum.
C15_WrittenExpiry ==
    [][ (now' = now /\ last'.op = "get" /\ HasEvent(last', "set"))
            => LET data == store'[last'.sname][last'.key]
                   sides == ExpirySides(last'.eff, now)
               IN /\ data[CREATION_INDEX] = now
                  /\ IF sides = {} THEN data[EXPIRY_INDEX] = None
                     ELSE /\ data[EXPIRY_INDEX] # None
                          /\ data[EXPIRY_INDEX][2] \in sides
                          /\ \A x \in sides : data[EXPIRY_INDEX][2] <= x
      ]_vars

C15_Witness ==
    /\ last.op = "get"
    /\ HasEvent(last, "set")
    /\ OptGet(last.eff, "expiry") # None
    /\ OptGet(last.eff, "max_age") # None
    /\ last.key \in DOMAIN store[last.sname]
    /\ store[last.sname][last.key][EXPIRY_INDEX] # None
    /\ store[last.sname][last.key][EXPIRY_INDEX][2] < OptGet(last.eff, "expiry")[2]

----------------------------------------------------------------------------
(* Claims on the termination of option resolution *)

\* C16: for every region configuration option resolution terminates: the
\* parent walk reaches 'default' and stops or reports a configuration error;
\* a chain that cycles without reaching 'default' yields an error, not a
\* walk that never ends.
C16_ResolutionTerminates ==
    last.op = "resolve" => last.exc \in {"", "KeyError"}

----------------------------------------------------------------------------
(* Claims on exists against get *)

\* get(key, func, **opts) in the current state would return the stored
\* value without calling func
GetWouldHit(key, opts) ==
    LET g == Get(regions, store, now, ext, key, FuncV(FuncStr), <<>>, <<>>,
                 opts, FALSE, "ok")
    IN /\ g.exc = ""
       /\ g.key \in DOMAIN store[g.sname]
       /\ g.events = << <<"get", g.sname, g.key>> >>
       /\ g.ret = store[g.sname][g.key][VALUE_INDEX]

\* C18: for every store state, key and options, options with an etagger
\* included, exists(key, opts) is true exactly when get(key, func, opts) with
\* the same options would return the stored value without recomputing.
C18_ExistsAsGet ==
    [][ (now' = now /\ last'.op = "exists" /\ last'.exc = "")
            => last'.ret = BoolV(GetWouldHit(last'.key0, last'.opts)) ]_vars

----------------------------------------------------------------------------
(* SpecArgs: calls of decorated functions with keyword arguments *)

\* func_1 of test_memo_basics, and a bound method that also has a bound
\* keyword argument
ArgFns ==
    { Decorate(Func1, <<>>, EmptyDict),
      Bind(Decorate(FuncAppend, <<>>, EmptyDict), <<1>>, << <<"c", 5>> >>) }

ArgKwargs == { <<>>, << <<"arg", 5>> >> }

InitArgs ==
    /\ regions = RegionsPlain
    /\ store = EmptyStores
    /\ now = 1
    /\ ext = 0
    /\ fn \in ArgFns
    /\ last = NoOp
    /\ threads = NoThreads

\* f(*args, **kwargs)
ArgCallOp ==
    \E args \in FuncArgs, kwargs \in ArgKwargs, outcome \in {"ok", "raise"} :
        /\ ValidCall(fn, args, kwargs)
        /\ LET ex == ExpandArgs(fn, args, kwargs)
               r == MFCall(fn, regions, store, now, ext, args, kwargs,
                           FALSE, outcome)
           IN Finish(FacadeRec("call", fn.func.name, Key(fn, ex.args, ex.kwargs),
                               args, kwargs, EmptyDict, r), r)
        /\ UNCHANGED <<threads, regions, now, ext, fn>>

\* f.get(args, kwargs)
ArgGetOp ==
    \E args \in FuncArgs, kwargs \in ArgKwargs, outcome \in {"ok", "raise"} :
        /\ ValidCall(fn, args, kwargs)
        /\ LET ex == ExpandArgs(fn, args, kwargs)
               r == MFGet(fn, regions, store, now, ext, args, kwargs, EmptyDict,
                          FALSE, outcome)
           IN Finish(FacadeRec("f.get", fn.func.name, Key(fn, ex.args, ex.kwargs),
                               args, kwargs, EmptyDict, r), r)
        /\ UNCHANGED <<threads, regions, now, ext, fn>>

\* f.delete(args, kwargs)
ArgDeleteOp ==
    \E args \in FuncArgs, kwargs \in ArgKwargs :
        /\ ValidCall(fn, args, kwargs)
        /\ LET ex == ExpandArgs(fn, args, kwargs)
               r == MFDelete(fn, regions, store, args, kwargs, EmptyDict)
           IN Finish(FacadeRec("f.delete", fn.func.name, Key(fn, ex.args, ex.kwargs),
                               args, kwargs, EmptyDict, r), r)
        /\ UNCHANGED <<threads, regions, now, ext, fn>>

NextArgs ==
    \/ ArgCallOp
    \/ ArgGetOp
    \/ ArgDeleteOp

SpecArgs == InitArgs /\ [][NextArgs]_vars

----------------------------------------------------------------------------
(* Claims on the arguments the function is called with *)

\* a keyword dict as the set of its items
KwItems(kwargs) == {kwargs[i] : i \in DOMAIN kwargs}

\* C19: __call__ and get of a decorated function invoke the function with
\* exactly the merged positional and keyword arguments, bound ones first,
\* from which the key was derived, so the value stored under a key is the
\* function's result for the binding the key denotes; deriving the key
\* removes no keyword argument from what the function is passed.
C19_FuncGetsMergedArgs ==
    [][ (last'.op \in {"call", "f.get"} /\ HasEvent(last', "call"))
            => LET m == ExpandArgs(fn, last'.args, last'.kwargs)
                   c == EventOf(last', "call")
               IN /\ c[2] = m.args
                  /\ KwItems(c[3]) = KwItems(m.kwargs)
                  /\ last'.exc \in {"", "ValueError"}
                  /\ last'.exc = ""
                        => store'[last'.sname][last'.key][VALUE_INDEX]
                             = FuncValue(fn.func, m.args, m.kwargs, ext)
      ]_vars

----------------------------------------------------------------------------
(* Claims on the stored entries *)

\* C20: from an empty store and after any sequence of facade operations
\* every stored entry is a 5-field record whose protocol version is the
\* current one, so the assertion of the expiry check never fails on an entry
\* the facade wrote.
C20_EntriesWellFormed ==
    /\ \A s \in StoreNames : \A k \in DOMAIN store[s] :
          /\ Len(store[s][k]) = 5
          /\ store[s][k][PROTOCOL_INDEX] = CURRENT_PROTOCOL_VERSION
    /\ last.exc # "AssertionError"

C20_Witness ==
    /\ last.op = "exists"
    /\ last.exc = ""
    /\ last.key \in DOMAIN store[last.sname]
    /\ StoreSize(store) >= 2
    /\ \E s \in StoreNames : \E k \in DOMAIN store[s] :
          store[s][k][EXPIRY_INDEX] # None /\ store[s][k][CREATION_INDEX] < now

----------------------------------------------------------------------------
(* SpecConc: threads that call Memoizer.get concurrently.  The lock
   constructor makes, for a key, a lock that excludes every other holder of
   the lock of that key; acquire waits while the lock is held and gives up
   when the timeout runs out. *)

Threads == 1..MaxThreads

\* test_lock: Memoizer(store, lock=Lock), and a region with a namespace
RegionsConc ==
    [default |-> [store |-> StoreV("s0"), lock |-> FnV("Lock")],
     a |-> [namespace |-> StrV("a")]]

ConcOpts == {EmptyDict, [region |-> StrV("a")]}

\* mutant: the lock is released before func is called
GetOrderReleaseFirst == <<"lock", "finally", "call", "infunc", "write">>

\* the steps of get after a miss, in program order: make and acquire the
\* lock, call func, be inside func, the finally clause, write the store
GetOrder == <<"lock", "call", "infunc", "finally", "write">>

\* the position after pc; an exception leaves get without the write
NextPc(pc, exc) ==
    LET i == IndexOf(GetOrder, pc)
        n == IF i = Len(GetOrder) THEN "idle" ELSE GetOrder[i + 1]
    IN IF exc # "" /\ n = "write" THEN "idle" ELSE n

\* thread t moves on with its local variables as in th
Advance(t, th) ==
    LET n == NextPc(threads[t].pc, th.exc)
    IN threads' = [threads EXCEPT ![t] =
                      IF n = "idle" THEN IdleThread ELSE [th EXCEPT !.pc = n]]

\* another thread holds the lock that lock_func makes for key
HeldByOther(t, lock_func, key) ==
    \E u \in DOMAIN threads :
        /\ u # t
        /\ threads[u].holds
        /\ threads[u].key = key
        /\ LockFunc(threads[u].eff, threads[u].sname) = lock_func

InitConc ==
    /\ regions = RegionsConc
    /\ store = EmptyStores
    /\ now = 1
    /\ ext = 0
    /\ fn = Decorate(FuncStr, <<>>, EmptyDict)
    /\ last = NoOp
    /\ threads = [t \in Threads |-> IdleThread]

\* get up to the test of the stored data: a valid entry is returned at
\* once, else the thread goes on to recompute
TStart(t) ==
    /\ threads[t].pc = "idle"
    /\ \E key \in BaseKeys, opts \in ConcOpts :
          LET x0 == ExpandOpts(regions, key, opts)
              x == [x0 EXCEPT !.opts = DynamicEtag(x0.opts, <<>>, <<>>, ext)]
              data == StoreGet(store, x.sname, x.key)
          IN /\ x0.exc = ""
             /\ IF data # None /\ ~HasExpired(data, x.opts, now)
                THEN threads' = threads
                ELSE threads' = [threads EXCEPT ![t] =
                        [pc |-> GetOrder[1], key |-> x.key, sname |-> x.sname,
                         eff |-> x.opts, locked |-> FALSE, holds |-> FALSE,
                         exc |-> ""]]
    /\ UNCHANGED <<regions, store, now, ext, fn, last>>

\* lock = lock_func and lock_func(key); locked = lock and lock.acquire(timeout):
\* the lock is taken when it is free, and the thread gives up when the
\* timeout runs out while another thread holds it
TAcquire(t) ==
    /\ threads[t].pc = "lock"
    /\ LET th == threads[t]
           lock_func == LockFunc(th.eff, th.sname)
           got == Truthy(lock_func) /\ ~HeldByOther(t, lock_func, th.key)
       IN Advance(t, [th EXCEPT !.locked = got, !.holds = got])
    /\ UNCHANGED <<regions, store, now, ext, fn, last>>

\* value = func(*args, **kwargs): the thread enters func
TEnter(t) ==
    /\ threads[t].pc = "call"
    /\ Advance(t, threads[t])
    /\ UNCHANGED <<regions, store, now, ext, fn, last>>

\* func returns or raises
TLeave(t) ==
    /\ threads[t].pc = "infunc"
    /\ \E outcome \in {"ok", "raise"} :
          Advance(t, [threads[t] EXCEPT
                        !.exc = CallFunc(FuncStr, <<>>, <<>>, ext, outcome).exc])
    /\ UNCHANGED <<regions, store, now, ext, fn, last>>

\* finally: if locked: lock.release()
TFinally(t) ==
    /\ threads[t].pc = "finally"
    /\ Advance(t, [threads[t] EXCEPT !.holds = IF threads[t].locked THEN FALSE ELSE @])
    /\ UNCHANGED <<regions, store, now, ext, fn, last>>

\* store[key] = (CURRENT_PROTOCOL_VERSION, creation, expiry, etag, value)
TWrite(t) ==
    /\ threads[t].pc = "write"
    /\ store' = StoreSet(store, threads[t].sname, threads[t].key,
                         NewEntry(threads[t].eff, now,
                                  FuncValue(FuncStr, <<>>, <<>>, ext)))
    /\ Advance(t, threads[t])
    /\ UNCHANGED <<regions, now, ext, fn, last>>

NextConc ==
    \E t \in Threads :
        \/ TStart(t)
        \/ TAcquire(t)
        \/ TEnter(t)
        \/ TLeave(t)
        \/ TFinally(t)
        \/ TWrite(t)

SpecConc == InitConc /\ [][NextConc]_vars

----------------------------------------------------------------------------
(* Claims on concurrent calls of get *)

InFunc(t) == threads[t].pc = "infunc"

\* threads t and u work on the same final key of the same store
SameKey(t, u) ==
    threads[t].key = threads[u].key /\ threads[t].sname = threads[u].sname

\* C17: under any interleaving of concurrent get calls on one final key with
\* a correct lock in effect, two threads are inside func for that key at the
\* same time only if one of them failed to acquire the lock; the store read
\* before acquisition and the store write after release are outside the
\* locked section.
C17_MutualExclusion ==
    /\ \A t, u \in Threads :
          (t # u /\ InFunc(t) /\ InFunc(u) /\ SameKey(t, u))
              => ~threads[t].locked \/ ~threads[u].locked
    /\ \A t \in Threads :
          threads[t].holds => threads[t].pc \in {"call", "infunc", "finally"}
    /\ \A t, u \in Threads :
          (t # u /\ threads[t].holds /\ threads[u].holds) => ~SameKey(t, u)

C17_Witness ==
    \E t, u \in Threads :
        /\ t # u
        /\ InFunc(t) /\ InFunc(u)
        /\ SameKey(t, u)
        /\ threads[t].locked /\ threads[t].holds
        /\ ~threads[u].locked

====
